---- MODULE Spec2Model ----
(***************************************************************************)
(* The sequent-calculus prover of qdtp.py and its LaTeX-producing variant  *)
(* sequent.py, as a state machine: the Python call stack of the recursive  *)
(* method Sequent.prove, one frame per invocation, one action per step of  *)
(* the method's body.  Python iterates a set in an order the program does  *)
(* not control, so every "first sentence the loop meets" is a choice (\E). *)
(***************************************************************************)
EXTENDS Naturals, Sequences, FiniteSets, TLC

VARIABLES
    impl,     \* which file runs: "qdtp" (qdtp.py) or "sequent" (sequent.py)
    input,    \* the sequent the caller writes down: [ante, cons]
    pc,       \* "construct" -> "prove" -> "done"
    stack,    \* the call stack of prove, innermost frame last
    exc,      \* the CounterExample in flight (qdtp.py), or NoExc
    result,   \* what the top-level call gave the caller, or NoResult
    calls,    \* history: number of invocations of prove so far
    leaf      \* history: the sequent, dict, call count and stack at the raise

vars == <<impl, input, pc, stack, exc, result, calls, leaf>>

----------------------------------------------------------------------------
(* Bounds of the model *)

NumAtoms == 2      \* atom symbols the enumerated inputs draw from
MaxSize == 5       \* symbols (atoms plus connectives) of an enumerated input
MaxStack == 8      \* cap on the depth of the call stack

----------------------------------------------------------------------------
(* Sentences: qdtp.py's Var/Not/Or/And/Cond, the frozen dataclasses whose  *)
(* equality is structural.  sequent.py's Variable/Negation/Disjunction/    *)
(* Conjunction/Conditional have the same fields.                           *)

Var(symbol) == <<"Var", symbol>>
Not(negand) == <<"Not", negand>>
Or(left, right) == <<"Or", left, right>>
And(left, right) == <<"And", left, right>>
Cond(ante, cons) == <<"Cond", ante, cons>>

Kind(s) == s[1]

\* isinstance(sentence, ComplexSentence)
IsComplex(s) == Kind(s) # "Var"

\* the class attribute left_branching
LeftBranching(s) == Kind(s) \in {"Or", "Cond"}

\* the class attribute right_branching
RightBranching(s) == Kind(s) = "And"

\* Sequent(ante, cons)
Sequent(ante, cons) == [ante |-> ante, cons |-> cons]

\* a bug: the parts of a Cond swapped in its right rule
RightRuleCondSwapped(s) ==
    CASE Kind(s) = "Not"  -> <<{s[2]}, {}>>
      [] Kind(s) = "Or"   -> <<{}, {s[2], s[3]}>>
      [] Kind(s) = "Cond" -> <<{s[3]}, {s[2]}>>

\* a bug: the left rule of Cond written like the left rule of Or
LeftRuleBranchesCondAsOr(s) ==
    CASE Kind(s) = "Or"   -> << <<{s[2]}, {}>>, <<{s[3]}, {}>> >>
      [] Kind(s) = "Cond" -> << <<{s[2]}, {}>>, <<{s[3]}, {}>> >>

\* left_rule of a non-branching connective: (new_ante, new_cons)
LeftRule(s) ==
    CASE Kind(s) = "Not" -> <<{}, {s[2]}>>
      [] Kind(s) = "And" -> <<{s[2], s[3]}, {}>>

\* right_rule of a non-branching connective: (new_ante, new_cons)
RightRule(s) ==
    CASE Kind(s) = "Not"  -> <<{s[2]}, {}>>
      [] Kind(s) = "Or"   -> <<{}, {s[2], s[3]}>>
      [] Kind(s) = "Cond" -> <<{s[2]}, {s[3]}>>

\* left_rule of a branching connective: (res_left, res_right)
LeftRuleBranches(s) ==
    CASE Kind(s) = "Or"   -> << <<{s[2]}, {}>>, <<{s[3]}, {}>> >>
      [] Kind(s) = "Cond" -> << <<{}, {s[2]}>>, <<{s[3]}, {}>> >>

\* right_rule of a branching connective: (res_left, res_right)
RightRuleBranches(s) ==
    CASE Kind(s) = "And" -> << <<{}, {s[2]}>>, <<{}, {s[3]}>> >>

\* a bug: the sentence the rule was applied to is not removed
FromLeftAppKeepsSentence(sentence, old_ante, old_cons, new) ==
    [ante |-> old_ante \cup new[1], cons |-> old_cons \cup new[2]]

\* a bug: the old consequents are forgotten
FromLeftAppDropsCons(sentence, old_ante, old_cons, new) ==
    [ante |-> (old_ante \ {sentence}) \cup new[1], cons |-> new[2]]

\* a bug: the old antecedents are forgotten
FromRightAppDropsAnte(sentence, old_ante, old_cons, new) ==
    [ante |-> new[1], cons |-> (old_cons \ {sentence}) \cup new[2]]

\* Sequent.from_left_app
FromLeftApp(sentence, old_ante, old_cons, new) ==
    Sequent((old_ante \ {sentence}) \cup new[1], old_cons \cup new[2])

\* Sequent.from_right_app
FromRightApp(sentence, old_ante, old_cons, new) ==
    Sequent(old_ante \cup new[1], (old_cons \ {sentence}) \cup new[2])

----------------------------------------------------------------------------
(* Inputs: every sequent of at most MaxSize symbols over the first         *)
(* NumAtoms symbols, and the sequents of the test suite and of             *)
(* sequent.py's main block.                                                *)

Symbols == <<"P", "Q", "R", "S">>
Atoms == {Symbols[i] : i \in 1..(IF NumAtoms < 4 THEN NumAtoms ELSE 4)}

RECURSIVE SentencesOfSize(_)
SentencesOfSize(n) ==
    IF n = 0 THEN {}
    ELSE IF n = 1 THEN {Var(a) : a \in Atoms}
    ELSE {Not(s) : s \in SentencesOfSize(n - 1)}
         \cup UNION {UNION {{Or(a, b), And(a, b), Cond(a, b)} :
                            a \in SentencesOfSize(k),
                            b \in SentencesOfSize(n - 1 - k)} :
                     k \in 1..(n - 2)}

\* sets of sentences with n symbols in all, every member of at most m symbols
\* (the members are added largest first, so that each set is built once)
RECURSIVE SetsOfSize(_, _)
SetsOfSize(n, m) ==
    IF n = 0 THEN {{}}
    ELSE UNION {UNION {{T \cup {s} : T \in {U \in SetsOfSize(n - k, k) : s \notin U}} :
                       s \in SentencesOfSize(k)} :
                k \in 1..(IF m < n THEN m ELSE n)}

EnumeratedInputs ==
    UNION {UNION {{Sequent(a, c) : a \in SetsOfSize(i, i), c \in SetsOfSize(j, j)} :
                  j \in 0..(MaxSize - i)} :
           i \in 0..MaxSize}

P == Var("P")
Q == Var("Q")
R == Var("R")

\* tests_qdtp.py
TestInputs ==
    { Sequent({P, Cond(P, Q)}, {Q}),
      Sequent({}, {Cond(P, Cond(Q, P))}),
      Sequent({P}, {Not(Not(P))}),
      Sequent({Cond(P, Q)}, {Cond(Not(Q), Not(P))}),
      Sequent({Cond(P, Q), Cond(Q, R)}, {Cond(P, R)}),
      Sequent({Not(Or(P, Q))}, {And(Not(P), Not(Q))}),
      Sequent({Not(And(P, Q))}, {Or(Not(P), Not(Q))}),
      Sequent({P, Cond(Q, P)}, {Q}) }

\* sequent.py, the main block
MainInputs ==
    { Sequent({Cond(Or(Var("A"), Not(Var("B"))), Var("C")),
               Cond(Var("B"), Not(Var("D"))),
               Var("D")},
              {Var("C")}) }

Inputs == EnumeratedInputs \cup TestInputs \cup MainInputs

----------------------------------------------------------------------------
\* exc is the args tuple of the exception in flight: empty, or <<counter>>
NoExc == <<>>
NoResult == [kind |-> "none"]
NoLeaf == <<>>
NoSentence == <<"NoSentence">>

Init ==
    /\ impl \in {"qdtp", "sequent"}
    /\ input \in Inputs
    /\ pc = "construct"
    /\ stack = <<>>
    /\ exc = NoExc
    /\ result = NoResult
    /\ calls = 0
    /\ leaf = NoLeaf

----------------------------------------------------------------------------
(* Constructing the input.  qdtp.py's classes all define left_rule and     *)
(* right_rule.  sequent.py's Conjunction defines left_rule and a method    *)
(* named right, so its abstract right_rule stays unimplemented and ABCMeta *)
(* refuses to instantiate the class (TypeError).                           *)

RECURSIVE Kinds(_)
Kinds(s) ==
    CASE Kind(s) = "Var" -> {"Var"}
      [] Kind(s) = "Not" -> {"Not"} \cup Kinds(s[2])
      [] OTHER -> {Kind(s)} \cup Kinds(s[2]) \cup Kinds(s[3])

\* the connectives of the running file that implement both abstract methods
Instantiable == IF impl = "qdtp" THEN {"Var", "Not", "Or", "And", "Cond"}
                ELSE {"Var", "Not", "Or", "Cond"}

Constructible(seq) == \A s \in seq.ante \cup seq.cons : Kinds(s) \subseteq Instantiable

\* a fresh invocation of prove on a sequent
Frame(seq) == [sequent |-> seq, at |-> "enter", sentence |-> NoSentence,
               side |-> "", proofs |-> <<>>]

Top == stack[Len(stack)]

\* the stack with its innermost frame replaced
WithTop(f) == [stack EXCEPT ![Len(stack)] = f]

\* RuleApp(sequent, children) in qdtp.py, RuleApp(sequent, children, rule) in sequent.py
RuleApp(seq, children, rule) ==
    IF impl = "qdtp" THEN [sequent |-> seq, children |-> children]
    ELSE [sequent |-> seq, children |-> children, rule |-> rule]

\* sequent.py's f"left {sentence.symbol}" and f"right {sentence.symbol}"
RuleName(side, s) ==
    CASE Kind(s) = "Not"  -> IF side = "left" THEN "left \\neg" ELSE "right \\neg"
      [] Kind(s) = "Or"   -> IF side = "left" THEN "left \\vee" ELSE "right \\vee"
      [] Kind(s) = "And"  -> IF side = "left" THEN "left \\wedge" ELSE "right \\wedge"
      [] Kind(s) = "Cond" -> IF side = "left" THEN "left \\rightarrow" ELSE "right \\rightarrow"

\* the sentences each of the four loops of prove can stop at
NonBranchingLeft(seq) == {s \in seq.ante : IsComplex(s) /\ ~LeftBranching(s)}
NonBranchingRight(seq) == {s \in seq.cons : IsComplex(s) /\ ~RightBranching(s)}
BranchingLeft(seq) == {s \in seq.ante : IsComplex(s) /\ LeftBranching(s)}
BranchingRight(seq) == {s \in seq.cons : IsComplex(s) /\ RightBranching(s)}

\* a bug: | written for &
CommonUnion(seq) == seq.ante \cup seq.cons

\* common = self.ante & self.cons
Common(seq) == seq.ante \cap seq.cons

\* a bug: the loop over the consequents is missing
CounterAnteOnly(seq) == [symbol \in {p[2] : p \in seq.ante} |-> TRUE]

\* the dict built by the two loops of the else branch: the second loop
\* overwrites what the first wrote
Counter(seq) ==
    [symbol \in {p[2] : p \in seq.ante \cup seq.cons} |->
        IF Var(symbol) \in seq.cons THEN FALSE ELSE TRUE]

Running == pc = "prove" /\ stack # <<>> /\ exc = NoExc

\* the caller builds the sequent and calls prove on it
Construct ==
    /\ pc = "construct"
    /\ IF Constructible(input)
       THEN /\ pc' = "prove"
            /\ stack' = <<Frame(input)>>
            /\ calls' = 1
            /\ result' = result
       ELSE /\ pc' = "done"
            /\ result' = [kind |-> "TypeError"]
            /\ UNCHANGED <<stack, calls>>
    /\ UNCHANGED <<impl, input, exc, leaf>>

\* first loop: a non-branching connective among the antecedents
NonBranchLeft ==
    /\ Running /\ Top.at = "enter" /\ Len(stack) < MaxStack
    /\ \E sentence \in NonBranchingLeft(Top.sequent) :
         stack' = Append(
             WithTop([Top EXCEPT !.at = "call1", !.sentence = sentence, !.side = "left"]),
             Frame(FromLeftApp(sentence, Top.sequent.ante, Top.sequent.cons,
                               LeftRule(sentence))))
    /\ calls' = calls + 1
    /\ UNCHANGED <<impl, input, pc, exc, result, leaf>>

\* second loop: a non-branching connective among the consequents
NonBranchRight ==
    /\ Running /\ Top.at = "enter" /\ Len(stack) < MaxStack
    /\ NonBranchingLeft(Top.sequent) = {}
    /\ \E sentence \in NonBranchingRight(Top.sequent) :
         stack' = Append(
             WithTop([Top EXCEPT !.at = "call1", !.sentence = sentence, !.side = "right"]),
             Frame(FromRightApp(sentence, Top.sequent.ante, Top.sequent.cons,
                                RightRule(sentence))))
    /\ calls' = calls + 1
    /\ UNCHANGED <<impl, input, pc, exc, result, leaf>>

\* a bug: the third loop runs before the first two
BranchLeftFirst ==
    /\ Running /\ Top.at = "enter" /\ Len(stack) < MaxStack
    /\ \E sentence \in BranchingLeft(Top.sequent) :
         stack' = Append(
             WithTop([Top EXCEPT !.at = "callL", !.sentence = sentence, !.side = "left"]),
             Frame(FromLeftApp(sentence, Top.sequent.ante, Top.sequent.cons,
                               LeftRuleBranches(sentence)[1])))
    /\ calls' = calls + 1
    /\ UNCHANGED <<impl, input, pc, exc, result, leaf>>

\* third loop: a branching connective among the antecedents, its left branch
BranchLeft ==
    /\ Running /\ Top.at = "enter" /\ Len(stack) < MaxStack
    /\ NonBranchingLeft(Top.sequent) = {}
    /\ NonBranchingRight(Top.sequent) = {}
    /\ \E sentence \in BranchingLeft(Top.sequent) :
         stack' = Append(
             WithTop([Top EXCEPT !.at = "callL", !.sentence = sentence, !.side = "left"]),
             Frame(FromLeftApp(sentence, Top.sequent.ante, Top.sequent.cons,
                               LeftRuleBranches(sentence)[1])))
    /\ calls' = calls + 1
    /\ UNCHANGED <<impl, input, pc, exc, result, leaf>>

\* fourth loop: a branching connective among the consequents, its left branch
BranchRight ==
    /\ Running /\ Top.at = "enter" /\ Len(stack) < MaxStack
    /\ NonBranchingLeft(Top.sequent) = {}
    /\ NonBranchingRight(Top.sequent) = {}
    /\ BranchingLeft(Top.sequent) = {}
    /\ \E sentence \in BranchingRight(Top.sequent) :
         stack' = Append(
             WithTop([Top EXCEPT !.at = "callL", !.sentence = sentence, !.side = "right"]),
             Frame(FromRightApp(sentence, Top.sequent.ante, Top.sequent.cons,
                                RightRuleBranches(sentence)[1])))
    /\ calls' = calls + 1
    /\ UNCHANGED <<impl, input, pc, exc, result, leaf>>

\* the left proof is back: build the right sequent and prove it
SecondBranch ==
    /\ Running /\ Top.at = "second" /\ Len(stack) < MaxStack
    /\ stack' = Append(
           WithTop([Top EXCEPT !.at = "callR"]),
           Frame(IF Top.side = "left"
                 THEN FromLeftApp(Top.sentence, Top.sequent.ante, Top.sequent.cons,
                                  LeftRuleBranches(Top.sentence)[2])
                 ELSE FromRightApp(Top.sentence, Top.sequent.ante, Top.sequent.cons,
                                   RightRuleBranches(Top.sentence)[2])))
    /\ calls' = calls + 1
    /\ UNCHANGED <<impl, input, pc, exc, result, leaf>>

\* no loop stopped: only atoms are left
Atomic(seq) ==
    /\ NonBranchingLeft(seq) = {} /\ NonBranchingRight(seq) = {}
    /\ BranchingLeft(seq) = {} /\ BranchingRight(seq) = {}

\* a bug: "and" written for "or" in the test for a sequent that needs thinning
CloseAnd ==
    /\ Running /\ Top.at = "enter"
    /\ Atomic(Top.sequent)
    /\ Cardinality(Common(Top.sequent)) # 0
    /\ IF Cardinality(Top.sequent.ante) > 1 /\ Cardinality(Top.sequent.cons) > 1
       THEN \E eve_prop \in Common(Top.sequent) :
              stack' = WithTop([Top EXCEPT !.at = "return", !.proofs =
                  <<RuleApp(Top.sequent,
                            <<RuleApp(Sequent({eve_prop}, {eve_prop}), <<>>, "axiom")>>,
                            "thinning")>>])
       ELSE stack' = WithTop([Top EXCEPT !.at = "return", !.proofs =
                  <<RuleApp(Top.sequent, <<>>, "axiom")>>])
    /\ UNCHANGED <<impl, input, pc, exc, result, calls, leaf>>

\* the sides share an atom: thinning down to an axiom, or the axiom itself
Close ==
    /\ Running /\ Top.at = "enter"
    /\ Atomic(Top.sequent)
    /\ Cardinality(Common(Top.sequent)) # 0
    /\ IF Cardinality(Top.sequent.ante) > 1 \/ Cardinality(Top.sequent.cons) > 1
       THEN \E eve_prop \in Common(Top.sequent) :
              stack' = WithTop([Top EXCEPT !.at = "return", !.proofs =
                  <<RuleApp(Top.sequent,
                            <<RuleApp(Sequent({eve_prop}, {eve_prop}), <<>>, "axiom")>>,
                            "thinning")>>])
       ELSE stack' = WithTop([Top EXCEPT !.at = "return", !.proofs =
                  <<RuleApp(Top.sequent, <<>>, "axiom")>>])
    /\ UNCHANGED <<impl, input, pc, exc, result, calls, leaf>>

\* qdtp.py: the sides share nothing: raise CounterExample(counter)
Raise ==
    /\ Running /\ Top.at = "enter"
    /\ impl = "qdtp"
    /\ Atomic(Top.sequent)
    /\ Cardinality(Common(Top.sequent)) = 0
    /\ exc' = <<Counter(Top.sequent)>>
    /\ leaf' = <<[sequent |-> Top.sequent, counter |-> Counter(Top.sequent),
                 calls |-> calls, stack |-> stack]>>
    /\ UNCHANGED <<impl, input, pc, stack, result, calls>>

\* sequent.py: the sides share nothing: a node tagged "counter" is returned
CounterNode ==
    /\ Running /\ Top.at = "enter"
    /\ impl = "sequent"
    /\ Atomic(Top.sequent)
    /\ Cardinality(Common(Top.sequent)) = 0
    /\ stack' = WithTop([Top EXCEPT !.at = "return", !.proofs =
                  <<RuleApp(Top.sequent, <<>>, "counter")>>])
    /\ UNCHANGED <<impl, input, pc, exc, result, calls, leaf>>

\* what the caller's frame becomes when the call it waits for returns proof
Resume(f, proof) ==
    CASE f.at = "call1" ->
           [f EXCEPT !.at = "return", !.proofs =
               <<RuleApp(f.sequent, <<proof>>, RuleName(f.side, f.sentence))>>]
      [] f.at = "callL" ->
           [f EXCEPT !.at = "second", !.proofs = <<proof>>]
      [] f.at = "callR" ->
           [f EXCEPT !.at = "return", !.proofs =
               <<RuleApp(f.sequent, <<f.proofs[1], proof>>, RuleName(f.side, f.sentence))>>]

\* the innermost invocation returns its RuleApp
Return ==
    /\ Running /\ Top.at = "return"
    /\ IF Len(stack) = 1
       THEN /\ stack' = <<>>
            /\ result' = [kind |-> "proof", proof |-> Top.proofs[1]]
            /\ pc' = "done"
       ELSE /\ stack' = [SubSeq(stack, 1, Len(stack) - 1) EXCEPT
                            ![Len(stack) - 1] = Resume(stack[Len(stack) - 1], Top.proofs[1])]
            /\ UNCHANGED <<result, pc>>
    /\ UNCHANGED <<impl, input, exc, calls, leaf>>

\* a bug: a frame waiting for its left proof catches the exception, takes a
\* childless node for the left proof and goes on to its right branch
UnwindCaught ==
    /\ pc = "prove" /\ exc # NoExc /\ stack # <<>>
    /\ IF Len(stack) > 1 /\ stack[Len(stack) - 1].at = "callL"
       THEN /\ stack' = [SubSeq(stack, 1, Len(stack) - 1) EXCEPT
                            ![Len(stack) - 1] =
                                Resume(stack[Len(stack) - 1], RuleApp(Top.sequent, <<>>, "counter"))]
            /\ exc' = NoExc
            /\ UNCHANGED <<result, pc>>
       ELSE /\ stack' = SubSeq(stack, 1, Len(stack) - 1)
            /\ exc' = exc
            /\ IF Len(stack) = 1
               THEN /\ result' = [kind |-> "counter", counter |-> exc[1]]
                    /\ pc' = "done"
               ELSE UNCHANGED <<result, pc>>
    /\ UNCHANGED <<impl, input, calls, leaf>>

\* no frame of prove catches CounterExample: the exception leaves the
\* innermost frame, and leaves the top-level call when no frame is left
Unwind ==
    /\ pc = "prove" /\ exc # NoExc /\ stack # <<>>
    /\ stack' = SubSeq(stack, 1, Len(stack) - 1)
    /\ IF Len(stack) = 1
       THEN /\ result' = [kind |-> "counter", counter |-> exc[1]]
            /\ pc' = "done"
       ELSE UNCHANGED <<result, pc>>
    /\ UNCHANGED <<impl, input, exc, calls, leaf>>

Next ==
    \/ Construct
    \/ NonBranchLeft
    \/ NonBranchRight
    \/ BranchLeft
    \/ BranchRight
    \/ SecondBranch
    \/ Close
    \/ Raise
    \/ CounterNode
    \/ Return
    \/ Unwind

Spec == Init /\ [][Next]_vars

\* the program is one thread that always takes its next step
FairSpec == Spec /\ WF_vars(Next)

----------------------------------------------------------------------------
(* The outcomes of qdtp.py's prove on a sequent, over every order in which *)
(* the four loops can meet the sentences: "proof" when a RuleApp is        *)
(* returned, "counter" when CounterExample is raised.  A branching step    *)
(* proves its right sequent only when the left one returned.               *)

RECURSIVE Verdicts(_)
Verdicts(seq) ==
    IF NonBranchingLeft(seq) # {}
    THEN UNION {Verdicts(FromLeftApp(s, seq.ante, seq.cons, LeftRule(s))) :
                s \in NonBranchingLeft(seq)}
    ELSE IF NonBranchingRight(seq) # {}
    THEN UNION {Verdicts(FromRightApp(s, seq.ante, seq.cons, RightRule(s))) :
                s \in NonBranchingRight(seq)}
    ELSE IF BranchingLeft(seq) # {}
    THEN UNION {
           LET lefts == Verdicts(FromLeftApp(s, seq.ante, seq.cons, LeftRuleBranches(s)[1]))
               rights == Verdicts(FromLeftApp(s, seq.ante, seq.cons, LeftRuleBranches(s)[2]))
           IN  (lefts \cap {"counter"}) \cup (IF "proof" \in lefts THEN rights ELSE {}) :
           s \in BranchingLeft(seq)}
    ELSE IF BranchingRight(seq) # {}
    THEN UNION {
           LET lefts == Verdicts(FromRightApp(s, seq.ante, seq.cons, RightRuleBranches(s)[1]))
               rights == Verdicts(FromRightApp(s, seq.ante, seq.cons, RightRuleBranches(s)[2]))
           IN  (lefts \cap {"counter"}) \cup (IF "proof" \in lefts THEN rights ELSE {}) :
           s \in BranchingRight(seq)}
    ELSE IF Cardinality(Common(seq)) # 0 THEN {"proof"} ELSE {"counter"}

----------------------------------------------------------------------------
(* Truth tables *)

RECURSIVE Eval(_, _)
Eval(s, A) ==
    CASE Kind(s) = "Var"  -> A[s[2]]
      [] Kind(s) = "Not"  -> ~Eval(s[2], A)
      [] Kind(s) = "Or"   -> Eval(s[2], A) \/ Eval(s[3], A)
      [] Kind(s) = "And"  -> Eval(s[2], A) /\ Eval(s[3], A)
      [] Kind(s) = "Cond" -> Eval(s[2], A) => Eval(s[3], A)

RECURSIVE SymbolsOf(_)
SymbolsOf(s) ==
    CASE Kind(s) = "Var" -> {s[2]}
      [] Kind(s) = "Not" -> SymbolsOf(s[2])
      [] OTHER -> SymbolsOf(s[2]) \cup SymbolsOf(s[3])

AtomsOf(seq) == UNION {SymbolsOf(s) : s \in seq.ante \cup seq.cons}

Assignments(seq) == [AtomsOf(seq) -> BOOLEAN]

\* A makes every antecedent true and every consequent false
Falsifies(A, seq) ==
    /\ \A a \in seq.ante : Eval(a, A)
    /\ \A c \in seq.cons : ~Eval(c, A)

Falsifiable(seq) == \E A \in Assignments(seq) : Falsifies(A, seq)

\* the total assignments that agree with the dict wherever the dict speaks
Extensions(counter, seq) ==
    {A \in Assignments(seq) :
        \A symbol \in DOMAIN counter \cap AtomsOf(seq) : A[symbol] = counter[symbol]}

----------------------------------------------------------------------------
(* C1 Soundness of closure: when qdtp.py's prove returns a RuleApp tree,   *)
(* no truth assignment to the atoms of the input makes every antecedent    *)
(* true and every consequent false.                                        *)
SoundClosure ==
    (impl = "qdtp" /\ result.kind = "proof") => ~Falsifiable(input)

\* a proof with a branching root was returned
SoundClosureWitness ==
    /\ impl = "qdtp" /\ result.kind = "proof"
    /\ Len(result.proof.children) = 2

(* C2 Soundness of counterexample: when qdtp.py's prove raises             *)
(* CounterExample with dict A, every total assignment to the input's atoms *)
(* that agrees with A makes every antecedent of the input true and every   *)
(* consequent false.                                                       *)
SoundCounterExample ==
    (impl = "qdtp" /\ result.kind = "counter") =>
        \A A \in Extensions(result.counter, input) : Falsifies(A, input)

\* a counterexample that leaves an atom of the input unmentioned
SoundCounterExampleWitness ==
    /\ impl = "qdtp" /\ result.kind = "counter"
    /\ DOMAIN result.counter # AtomsOf(input)
    /\ DOMAIN result.counter # {}

(* C3 Every valid sequent closes: on an input no assignment falsifies,     *)
(* qdtp.py's prove never raises CounterExample and what it returns is a    *)
(* proof tree.                                                             *)
ValidCloses ==
    (impl = "qdtp" /\ ~Falsifiable(input)) =>
        /\ exc = NoExc
        /\ pc = "done" => result.kind = "proof"

\* the first De Morgan law of the test suite was proved
ValidClosesWitness ==
    /\ impl = "qdtp" /\ pc = "done" /\ result.kind = "proof"
    /\ input = Sequent({Not(Or(P, Q))}, {And(Not(P), Not(Q))})

(* C4 Termination: the top-level call of prove eventually finishes, with a *)
(* tree returned or a counterexample raised.                               *)
Termination == <>(pc = "done")

\* a call that finished after recursing at least five times
TerminationWitness ==
    /\ pc = "done" /\ result.kind \in {"proof", "counter"}
    /\ calls >= 6

(* C5 Short-circuit on the first counterexample (qdtp.py): from the raise  *)
(* at a leaf on, prove is not invoked again, no frame does anything but    *)
(* disappear (the pending second branches included), the exception keeps   *)
(* the dict of that leaf, and no outcome but that dict reaches the caller. *)
ShortCircuit ==
    leaf # NoLeaf =>
        /\ calls = leaf[1].calls
        /\ Len(stack) <= Len(leaf[1].stack)
        /\ stack = SubSeq(leaf[1].stack, 1, Len(stack))
        /\ exc = <<leaf[1].counter>>
        /\ result.kind \in {"none", "counter"}
        /\ result.kind = "counter" => result.counter = leaf[1].counter
        /\ pc = "done" => result.kind = "counter"

\* the counterexample came out of the first branch of a branching rule and
\* reached the caller
ShortCircuitWitness ==
    /\ leaf # NoLeaf /\ pc = "done" /\ result.kind = "counter"
    /\ \E i \in 1..Len(leaf[1].stack) : leaf[1].stack[i].at = "callL"

RECURSIVE CounterNodes(_)
CounterNodes(proof) ==
    (IF proof.rule = "counter" THEN 1 ELSE 0)
    + (IF Len(proof.children) >= 1 THEN CounterNodes(proof.children[1]) ELSE 0)
    + (IF Len(proof.children) >= 2 THEN CounterNodes(proof.children[2]) ELSE 0)

(* C6 At most one counterexample per top-level call (sequent.py): the tree *)
(* sequent.py's prove returns never holds two nodes tagged "counter".      *)
AtMostOneCounter ==
    (impl = "sequent" /\ result.kind = "proof") => CounterNodes(result.proof) <= 1

(* C7 Confluence of verdict: the verdict of a finished run of qdtp.py's    *)
(* prove (tree returned or counterexample raised) is the only verdict any  *)
(* iteration order of the antecedent and consequent sets can produce on    *)
(* that input.                                                             *)
Confluence ==
    (impl = "qdtp" /\ pc = "done") => Verdicts(input) = {result.kind}

\* the transitivity of conditionals of the test suite was proved: its third
\* loop has two sentences to choose from
ConfluenceWitness ==
    /\ impl = "qdtp" /\ pc = "done" /\ result.kind = "proof"
    /\ input = Sequent({Cond(P, Q), Cond(Q, R)}, {Cond(P, R)})

(* C8 Counterexample content: the raise happens at a sequent of atoms only *)
(* whose sides are disjoint, and the dict raised has exactly the symbols   *)
(* of that sequent as keys, True for every antecedent atom and False for   *)
(* every consequent atom.                                                  *)
CounterExampleContent ==
    leaf # NoLeaf =>
        LET l == leaf[1].sequent
            counter == exc[1]
        IN  /\ \A s \in l.ante \cup l.cons : Kind(s) = "Var"
            /\ l.ante \cap l.cons = {}
            /\ DOMAIN counter = {s[2] : s \in l.ante \cup l.cons}
            /\ \A s \in l.ante : counter[s[2]] = TRUE
            /\ \A s \in l.cons : counter[s[2]] = FALSE
            /\ result.kind = "counter" => result.counter = counter

\* a counterexample raised at a leaf with atoms on both sides
CounterExampleContentWitness ==
    /\ leaf # NoLeaf /\ result.kind = "counter"
    /\ leaf[1].sequent.ante # {} /\ leaf[1].sequent.cons # {}

KindsOf(sentences) == {Kind(s) : s \in sentences}

PriorityAt(f) ==
    /\ (f.at = "call1" /\ f.side = "right") =>
           KindsOf(f.sequent.ante) \cap {"Not", "And"} = {}
    /\ f.at \in {"callL", "second", "callR"} =>
           /\ KindsOf(f.sequent.ante) \cap {"Not", "And"} = {}
           /\ KindsOf(f.sequent.cons) \cap {"Not", "Or", "Cond"} = {}
    /\ (f.at \in {"callL", "second", "callR"} /\ f.side = "right") =>
           KindsOf(f.sequent.ante) \cap {"Or", "Cond"} = {}
    /\ (f.at = "return" /\ f.sentence = NoSentence) =>
           KindsOf(f.sequent.ante \cup f.sequent.cons) \subseteq {"Var"}

(* C9 Strict rule priority: in every invocation of prove, a non-branching  *)
(* consequent rule is applied only when no antecedent is a Not or an And;  *)
(* a branching rule only when there is no Not on either side, no And among *)
(* the antecedents and no Or or Cond among the consequents; a branching    *)
(* consequent rule only when, besides, no antecedent is an Or or a Cond;   *)
(* and the terminal case is reached only when every sentence is an atom.   *)
RulePriority ==
    /\ \A i \in 1..Len(stack) : PriorityAt(stack[i])
    /\ leaf # NoLeaf =>
           KindsOf(leaf[1].sequent.ante \cup leaf[1].sequent.cons) \subseteq {"Var"}

\* a branching consequent rule is being applied under a frame that applied
\* a non-branching consequent rule
RulePriorityWitness ==
    \E i \in 1..Len(stack) : \E j \in 1..Len(stack) :
        /\ stack[i].at = "call1" /\ stack[i].side = "right"
        /\ stack[j].at = "callR" /\ stack[j].side = "right"

TableChild(s, side, branch, A, C) ==
    CASE Kind(s) = "Not" /\ side = "left" -> Sequent(A \ {s}, C \cup {s[2]})
      [] Kind(s) = "Not" /\ side = "right" -> Sequent(A \cup {s[2]}, C \ {s})
      [] Kind(s) = "Or" /\ side = "left" /\ branch = 1 -> Sequent((A \ {s}) \cup {s[2]}, C)
      [] Kind(s) = "Or" /\ side = "left" /\ branch = 2 -> Sequent((A \ {s}) \cup {s[3]}, C)
      [] Kind(s) = "Or" /\ side = "right" -> Sequent(A, (C \ {s}) \cup {s[2], s[3]})
      [] Kind(s) = "And" /\ side = "left" -> Sequent((A \ {s}) \cup {s[2], s[3]}, C)
      [] Kind(s) = "And" /\ side = "right" /\ branch = 1 -> Sequent(A, (C \ {s}) \cup {s[2]})
      [] Kind(s) = "And" /\ side = "right" /\ branch = 2 -> Sequent(A, (C \ {s}) \cup {s[3]})
      [] Kind(s) = "Cond" /\ side = "left" /\ branch = 1 -> Sequent(A \ {s}, C \cup {s[2]})
      [] Kind(s) = "Cond" /\ side = "left" /\ branch = 2 -> Sequent((A \ {s}) \cup {s[3]}, C)
      [] Kind(s) = "Cond" /\ side = "right" -> Sequent(A \cup {s[2]}, (C \ {s}) \cup {s[3]})

RECURSIVE ChildlessSequents(_)
ChildlessSequents(proof) ==
    IF Len(proof.children) = 0 THEN {proof.sequent}
    ELSE UNION {ChildlessSequents(proof.children[i]) : i \in 1..Len(proof.children)}

\* {p} => {p} for an atom p
IsAxiom(seq) ==
    /\ seq.ante = seq.cons
    /\ Cardinality(seq.ante) = 1
    /\ \A s \in seq.ante : Kind(s) = "Var"

\* the invocation f has just closed its all-atom sequent
Closed(f) ==
    /\ f.at = "return" /\ f.sentence = NoSentence
    /\ f.sequent.ante \cap f.sequent.cons # {}

(* C11 Closure shape at an atomic leaf: when only atoms remain and the     *)
(* sides share an atom, prove builds a node for the current sequent that   *)
(* has, if either side has more than one member, exactly one child, itself *)
(* childless, for {p} => {p} with p a shared atom, and otherwise no child; *)
(* and every childless node of a tree qdtp.py's prove returns is for a     *)
(* sequent {p} => {p}.                                                     *)
ClosureShape ==
    /\ \A i \in 1..Len(stack) :
         Closed(stack[i]) =>
           LET seq == stack[i].sequent
               node == stack[i].proofs[1]
           IN  /\ node.sequent = seq
               /\ IF Cardinality(seq.ante) > 1 \/ Cardinality(seq.cons) > 1
                  THEN /\ Len(node.children) = 1
                       /\ Len(node.children[1].children) = 0
                       /\ \E p \in seq.ante \cap seq.cons :
                            node.children[1].sequent = Sequent({p}, {p})
                  ELSE Len(node.children) = 0
    /\ (impl = "qdtp" /\ result.kind = "proof") =>
         \A seq \in ChildlessSequents(result.proof) : IsAxiom(seq)

\* a sequent with one antecedent and two consequents has just been closed
\* by thinning
ClosureShapeWitness ==
    /\ impl = "qdtp" /\ stack # <<>>
    /\ Closed(Top)
    /\ Cardinality(Top.sequent.ante) = 1
    /\ Cardinality(Top.sequent.cons) = 2

(* C12 Conjunction right rule in sequent.py: a sequent whose consequents   *)
(* hold a Conjunction(a, b) can be constructed, and sequent.py's prove     *)
(* decomposes that sentence of (L => R + {a /\ b}) into the two sequents   *)
(* (L => R + {a}) and (L => R + {b}).                                      *)
ConjunctionRight ==
    (impl = "sequent" /\ \E s \in input.cons : Kind(s) = "And") =>
        /\ result.kind # "TypeError"
        /\ \A i \in 1..(Len(stack) - 1) :
             (stack[i].side = "right" /\ Kind(stack[i].sentence) = "And") =>
                LET s == stack[i].sentence
                    L == stack[i].sequent.ante
                    rest == stack[i].sequent.cons \ {s}
                IN  stack[i + 1].sequent =
                        IF stack[i].at = "callR"
                        THEN Sequent(L, rest \cup {s[3]})
                        ELSE Sequent(L, rest \cup {s[2]})

\* the symbols of a sentence: its atoms plus its connectives, with repeats
RECURSIVE SizeOf(_)
SizeOf(s) ==
    CASE Kind(s) = "Var" -> 1
      [] Kind(s) = "Not" -> 1 + SizeOf(s[2])
      [] OTHER -> 1 + SizeOf(s[2]) + SizeOf(s[3])

RECURSIVE SizeOfAll(_)
SizeOfAll(sentences) ==
    IF sentences = {} THEN 0
    ELSE LET s == CHOOSE x \in sentences : TRUE
         IN  SizeOf(s) + SizeOfAll(sentences \ {s})

\* the size of a sequent: the symbols of its antecedents plus those of its
\* consequents
SequentSize(seq) == SizeOfAll(seq.ante) + SizeOfAll(seq.cons)

(* C13 Decreasing measure: the sequent of every invocation of prove made   *)
(* by a rule application is strictly smaller than the sequent of the       *)
(* invocation that applied the rule, and the number of rule applications   *)
(* on a path of the recursion is at most the size of the initial sequent.  *)
DecreasingMeasure ==
    /\ \A i \in 1..(Len(stack) - 1) :
         SequentSize(stack[i + 1].sequent) < SequentSize(stack[i].sequent)
    /\ stack # <<>> =>
         /\ stack[1].sequent = input
         /\ Len(stack) <= SequentSize(input) + 1

\* a path of four rule applications on which one application took more
\* than one symbol away
DecreasingMeasureWitness ==
    /\ Len(stack) >= 5
    /\ \E i \in 1..(Len(stack) - 1) :
         SequentSize(stack[i + 1].sequent) + 1 < SequentSize(stack[i].sequent)
====
